---- MODULE Spec2Model ----
(***************************************************************************)
(* Model of python/lsst/meas/deblender/sim.py: one call of matchToRef      *)
(* (Spec), of buildPeakTable or buildFootprintPeakTable (SpecBuild), of    *)
(* calculateSedsFromFlux (SpecSed) and of calculateIsolatedFlux (SpecIso), *)
(* each followed statement block by statement block.  A variable keeps the *)
(* name of the argument or local it stands for; the variables a function   *)
(* does not have are NotUsed during its call.                              *)
(*                                                                         *)
(* Conventions of the translation                                          *)
(*  - Rows and indices are 1-based: row i here is Python row i-1, and the  *)
(*    truth index j here is the cKDTree index j-1.                         *)
(*  - A distance is represented by its square.  cKDTree.query returns the  *)
(*    Euclidean distance sqrt(s) of integer-valued coordinates; sqrt is    *)
(*    strictly increasing, so sqrt(s) < m is decided on s (see Closer).    *)
(*  - The filter list is <<1, ..., NF>>; a column "flux_"+f of a table is  *)
(*    the entry f of the row's flux field (same for intensity_f).          *)
(*  - An intensity image is the sequence of its pixels.                    *)
(*  - A raised Python exception ends the call in pc = "raised" with the    *)
(*    exception recorded in err.                                           *)
(*  - range(n) is a list (line 260 concatenates it to lists), i.e. the     *)
(*    Python 2 semantics the module is written for.                        *)
(***************************************************************************)
EXTENDS Integers, Sequences, FiniteSets, TLC

\* ------------------------------------------------------------------ bounds
MaxPeaks == 2
MaxSims == 2
MaxFilters == 2
MaxParents == 2

\* maxSeparation=3 in the signature of matchToRef
DefaultMaxSeparation == 3

MaxSeparations == {1, DefaultMaxSeparation}

\* Pixel positions peaks and truth sources are drawn from.  They give the
\* distances 1, sqrt(5), 3 and sqrt(13), and peaks with two truth positions
\* at the same distance.
PeakPoints == {<<0, 1>>, <<0, 3>>, <<1, 2>>}
SimPoints == {<<0, 0>>, <<0, 2>>, <<3, 3>>}

VARIABLES
    peakTable,      \* argument: rows [x, y]
    simTable,       \* argument: rows [x, y, flux, intensity, sed, size, redshift]
    filters,        \* argument: the filter list
    maxSeparation,  \* argument
    avgNoise,       \* argument: [isNone, list]
    display,        \* argument
    pc,             \* position in matchToRef
    err,            \* the exception raised, "none" while there is none
    d2,             \* local d2 (squared, see above)
    idx,            \* local idx
    matched,        \* local matched
    matchTable,     \* local matchTable
    unmatched,      \* local unmatched: the undetected truth indices, as enumerated
    unmatchedTable, \* local unmatchedTable
    call,           \* the function called
    expDb,          \* argument expDb: [mergedDet] or [calexps]
    footprint,      \* argument of buildFootprintPeakTable
    sid,            \* argument of buildFootprintPeakTable: [isNone, val]
    rows,           \* the lists parents, peakIdx, peaks, x, y, blends, footprints
    src,            \* position of the loop over expDb.mergedDet
    tbl,            \* argument of calculateSedsFromFlux
    inPlace,        \* argument of calculateSedsFromFlux
    seds,           \* local seds
    normalization,  \* local normalization
    n,              \* position of the loop over peakTable in calculateIsolatedFlux
    fluxThresh      \* argument of calculateIsolatedFlux

vars == <<peakTable, simTable, filters, maxSeparation, avgNoise, display, pc, err,
          d2, idx, matched, matchTable, unmatched, unmatchedTable,
          call, expDb, footprint, sid, rows, src, tbl, inPlace, seds, normalization,
          n, fluxThresh>>

\* the variables matchToRef does not have
notOfMatchToRef == <<call, expDb, footprint, sid, rows, src, tbl, inPlace, seds,
                     normalization, n, fluxThresh>>

NotUsed == <<>>

args == <<peakTable, simTable, filters, maxSeparation, avgNoise, display>>

\* ------------------------------------------------------------- helpers
SeqsUpTo(S, len) == UNION {[1..k -> S] : k \in 0..len}

Range(s) == {s[i] : i \in 1..Len(s)}

Injective(s) == \A i, k \in 1..Len(s) : s[i] = s[k] => i = k

MaxOf(s) == CHOOSE v \in Range(s) : \A w \in Range(s) : w <= v

ZerosLike(s) == [i \in DOMAIN s |-> 0]

\* ---------------------------------------------------------- the arguments
\* Contents of the simulated catalogue: every truth source has its own
\* position and its own, nonzero values.
SimFlux(j, f) == 10 * j + f
SimIntensity(j, f) == <<j, j + f>>
SimSed(j, f) == j + f
SimSize(j) == j
SimRedshift(j) == j + 1

SimRow(j, p, nf) ==
    [x |-> p[1], y |-> p[2],
     flux |-> [f \in 1..nf |-> SimFlux(j, f)],
     intensity |-> [f \in 1..nf |-> SimIntensity(j, f)],
     sed |-> [f \in 1..nf |-> SimSed(j, f)],
     size |-> SimSize(j),
     redshift |-> SimRedshift(j)]

PeakRow(p) == [x |-> p[1], y |-> p[2]]

NoiseAt(k) == 2 * k + 1

\* avgNoise=None, or a list of any length up to one more than the filters
NoiseArgs(nf) ==
    {[isNone |-> TRUE, list |-> <<>>]} \cup
    {[isNone |-> FALSE, list |-> [k \in 1..len |-> NoiseAt(k)]] : len \in 0..(nf + 1)}

Init ==
    /\ \E ps \in SeqsUpTo(PeakPoints, MaxPeaks) :
          peakTable = [i \in 1..Len(ps) |-> PeakRow(ps[i])]
    /\ \E nf \in 0..MaxFilters :
          /\ filters = [f \in 1..nf |-> f]
          /\ \E ss \in SeqsUpTo(SimPoints, MaxSims) :
                /\ Injective(ss)
                /\ simTable = [j \in 1..Len(ss) |-> SimRow(j, ss[j], nf)]
          /\ avgNoise \in NoiseArgs(nf)
    /\ maxSeparation \in MaxSeparations
    /\ display \in BOOLEAN
    /\ pc = "query"
    /\ err = "none"
    /\ d2 = <<>>
    /\ idx = <<>>
    /\ matched = <<>>
    /\ matchTable = <<>>
    /\ unmatched = <<>>
    /\ unmatchedTable = <<>>
    /\ call = "matchToRef"
    /\ expDb = NotUsed
    /\ footprint = NotUsed
    /\ sid = NotUsed
    /\ rows = NotUsed
    /\ src = NotUsed
    /\ tbl = NotUsed
    /\ inPlace = NotUsed
    /\ seds = NotUsed
    /\ normalization = NotUsed
    /\ n = NotUsed
    /\ fluxThresh = NotUsed

Raise(e) ==
    /\ pc' = "raised"
    /\ err' = e

\* ------------------------------------------------------- lines 193 - 196
Dist2(p, s) == (p.x - s.x) * (p.x - s.x) + (p.y - s.y) * (p.y - s.y)

\* the truth indices at minimal distance of p: cKDTree documents no choice
\* among equidistant points
Nearest(p, sims) ==
    {j \in 1..Len(sims) :
        \A k \in 1..Len(sims) : Dist2(p, sims[j]) <= Dist2(p, sims[k])}

Query ==
    /\ pc = "query"
    /\ \/ /\ Len(peakTable) = 0 \/ Len(simTable) = 0
          /\ Raise("EmptyInput")
          /\ UNCHANGED <<d2, idx>>
       \/ /\ Len(peakTable) > 0
          /\ Len(simTable) > 0
          /\ \E nn \in [1..Len(peakTable) -> 1..Len(simTable)] :
                /\ \A i \in 1..Len(peakTable) : nn[i] \in Nearest(peakTable[i], simTable)
                /\ idx' = nn
                /\ d2' = [i \in 1..Len(peakTable) |-> Dist2(peakTable[i], simTable[nn[i]])]
          /\ pc' = "build"
          /\ UNCHANGED err
    /\ UNCHANGED <<args, matched, matchTable, unmatched, unmatchedTable>>
    /\ UNCHANGED notOfMatchToRef

\* ------------------------------------------------------- lines 197 - 206
\* variant: the comparison written d2 <= maxSeparation
CloserOrEqual(dSquared, maxSep) == maxSep >= 0 /\ dSquared <= maxSep * maxSep

\* d < maxSeparation, for the distance d whose square is dSquared
Closer(dSquared, maxSep) == maxSep > 0 /\ dSquared < maxSep * maxSep

\* uniqueCounts[uniqueInv] of np.unique(idx[matched], ...): for a matched
\* peak, how many matched peaks have its truth index
MatchCount(ix, m, v) == Cardinality({k \in 1..Len(ix) : m[k] /\ ix[k] = v})

\* variant: np.unique taken over idx instead of idx[matched]
DuplicateAmongAll(ix, m, i) ==
    m[i] /\ Cardinality({k \in 1..Len(ix) : ix[k] = ix[i]}) > 1

Duplicate(ix, m, i) == m[i] /\ MatchCount(ix, m, ix[i]) > 1

MatchRow(s, m, d, dup) ==
    [x |-> s.x, y |-> s.y, flux |-> s.flux, intensity |-> s.intensity,
     sed |-> s.sed, size |-> s.size, redshift |-> s.redshift,
     matched |-> m, distance |-> d, duplicate |-> dup]

Build ==
    /\ pc = "build"
    /\ LET m == [i \in 1..Len(d2) |-> Closer(d2[i], maxSeparation)]
       IN  /\ matched' = m
           /\ matchTable' = [i \in 1..Len(idx) |->
                                MatchRow(simTable[idx[i]], m[i], d2[i], Duplicate(idx, m, i))]
    /\ pc' = "zero"
    /\ UNCHANGED <<args, err, d2, idx, unmatched, unmatchedTable>>
    /\ UNCHANGED notOfMatchToRef

\* ------------------------------------------------------- lines 207 - 218
\* variant: lines 217 - 218 left out, the truth position kept
ZeroRowKeepingTruthPosition(r, peak, emptyPatch, emptySed) ==
    IF r.matched
    THEN [r EXCEPT !.sed = emptySed]
    ELSE [r EXCEPT !.intensity = [f \in DOMAIN r.intensity |-> emptyPatch],
                   !.sed = emptySed,
                   !.flux = [f \in DOMAIN r.flux |-> 0],
                   !.size = 0,
                   !.redshift = 0]

\* one row after the loop over the filters: the sed column is assigned as a
\* whole (line 213), the other columns under the mask ~matched
ZeroRow(r, peak, emptyPatch, emptySed) ==
    IF r.matched
    THEN [r EXCEPT !.sed = emptySed]
    ELSE [r EXCEPT !.intensity = [f \in DOMAIN r.intensity |-> emptyPatch],
                   !.sed = emptySed,
                   !.flux = [f \in DOMAIN r.flux |-> 0],
                   !.size = 0,
                   !.redshift = 0,
                   !.x = peak.x,
                   !.y = peak.y]

\* variant: simTable[idx] a view, every row sharing the storage of its source
RowsSharedAsView(ix) == 1..Len(ix)

\* the rows of simTable[ix] that share storage with simTable: none, a table
\* indexed by an integer array is a new table with copied columns (line 202)
RowsShared(ix) == {}

TruthData(r) ==
    [x |-> r.x, y |-> r.y, flux |-> r.flux, intensity |-> r.intensity,
     sed |-> r.sed, size |-> r.size, redshift |-> r.redshift]

\* sims after the writes to the rows of mt that share storage with it
WrittenThrough(sims, mt, ix, shared) ==
    [j \in 1..Len(sims) |->
        LET S == {i \in shared : ix[i] = j}
        IN  IF S = {}
            THEN sims[j]
            ELSE TruthData(mt[CHOOSE i \in S : \A k \in S : k <= i])]

ZeroUnmatched ==
    /\ pc = "zero"
    /\ \/ /\ Len(filters) = 0
          /\ Raise("IndexError")
          /\ UNCHANGED <<matchTable, simTable>>
       \/ /\ Len(filters) > 0
          /\ LET emptyPatch == ZerosLike(matchTable[1].intensity[filters[1]])
                 emptySed == ZerosLike(matchTable[1].sed)
             IN  matchTable' = [i \in 1..Len(matchTable) |->
                                   ZeroRow(matchTable[i], peakTable[i], emptyPatch, emptySed)]
          /\ simTable' = WrittenThrough(simTable, matchTable', idx, RowsShared(idx))
          /\ pc' = "undetected"
          /\ UNCHANGED err
    /\ UNCHANGED <<peakTable, filters, maxSeparation, avgNoise, display>>
    /\ UNCHANGED <<d2, idx, matched, unmatched, unmatchedTable>>
    /\ UNCHANGED notOfMatchToRef

\* ------------------------------------------------------- lines 220 - 227
\* variant: sidx = set(idx), the mask left out
UndetectedAmongAll(ix, m, nSims) == (1..nSims) \ Range(ix)

\* srange - sidx
Undetected(ix, m, nSims) == (1..nSims) \ {ix[i] : i \in {k \in 1..Len(ix) : m[k]}}

\* list(aSet): every element once, in an order the language leaves open
Enumerations(S) == {s \in [1..Cardinality(S) -> S] : Range(s) = S}

FindUnmatched ==
    /\ pc = "undetected"
    /\ \E u \in Enumerations(Undetected(idx, matched, Len(simTable))) :
          /\ unmatched' = u
          /\ unmatchedTable' = [k \in 1..Len(u) |-> simTable[u[k]]]
    /\ pc' = "ratios"
    /\ UNCHANGED <<args, err, d2, idx, matched, matchTable>>
    /\ UNCHANGED notOfMatchToRef

\* ------------------------------------------------------- lines 228 - 236
\* the quotient a / b, kept as the pair of its terms
Ratio(a, b) == <<a, b>>

\* the sequence s in ascending order
Ascending(s) ==
    CHOOSE t \in Enumerations(Range(s)) : \A i, k \in 1..Len(t) : i < k => t[i] < t[k]

\* variant: the ratios collected in ascending order of the truth index
\* (for sidx in sorted(unmatched))
AllRatiosInIndexOrder(um, sims, fs, noise) ==
    [f \in 1..Len(fs) |->
        [k \in 1..Len(um) |->
            Ratio(MaxOf(sims[Ascending(um)[k]].intensity[fs[f]]), noise[f])]]

\* allRatios after the loops of lines 229 - 234: per filter, the ratios in
\* the order the loop walks unmatched
AllRatios(um, sims, fs, noise) ==
    [f \in 1..Len(fs) |->
        [k \in 1..Len(um) |-> Ratio(MaxOf(sims[um[k]].intensity[fs[f]]), noise[f])]]

\* row k of unmatchedTable with the columns of lines 235 - 236
WithRatios(s, allRatios, k) ==
    [x |-> s.x, y |-> s.y, flux |-> s.flux, intensity |-> s.intensity,
     sed |-> s.sed, size |-> s.size, redshift |-> s.redshift,
     ratio |-> [f \in DOMAIN allRatios |-> allRatios[f][k]]]

Ratios ==
    /\ pc = "ratios"
    /\ \/ /\ unmatched # <<>>
          /\ avgNoise.isNone
          /\ Raise("TypeError")
          /\ UNCHANGED unmatchedTable
       \/ /\ unmatched # <<>>
          /\ ~avgNoise.isNone
          /\ Len(avgNoise.list) < Len(filters)
          /\ Raise("IndexError")
          /\ UNCHANGED unmatchedTable
       \/ /\ unmatched = <<>> \/ (~avgNoise.isNone /\ Len(avgNoise.list) >= Len(filters))
          /\ LET allRatios == AllRatios(unmatched, simTable, filters, avgNoise.list)
             IN  unmatchedTable' = [k \in 1..Len(unmatchedTable) |->
                                       WithRatios(unmatchedTable[k], allRatios, k)]
          /\ pc' = "display"
          /\ UNCHANGED err
    /\ UNCHANGED <<args, d2, idx, matched, matchTable, unmatched>>
    /\ UNCHANGED notOfMatchToRef

\* ------------------------------------------------------- lines 238 - 303
\* The plots change no table.  Under display, line 255 reads flux, which
\* only the loop over the undetected sources (252 - 254) binds, and line 257
\* plots avgNoise against range(len(filters)).  The block under calexp
\* (265 - 302) rebinds the local unmatched and draws; it is not followed.
Display ==
    /\ pc = "display"
    /\ \/ /\ ~display
          /\ pc' = "done"
          /\ UNCHANGED err
       \/ /\ display
          /\ unmatched = <<>>
          /\ Raise("UnboundLocalError")
       \/ /\ display
          /\ unmatched # <<>>
          /\ ~avgNoise.isNone
          /\ Len(avgNoise.list) # Len(filters)
          /\ Raise("ValueError")
       \/ /\ display
          /\ unmatched # <<>>
          /\ avgNoise.isNone \/ Len(avgNoise.list) = Len(filters)
          /\ pc' = "done"
          /\ UNCHANGED err
    /\ UNCHANGED <<args, d2, idx, matched, matchTable, unmatched, unmatchedTable>>
    /\ UNCHANGED notOfMatchToRef

Next ==
    \/ Query
    \/ Build
    \/ ZeroUnmatched
    \/ FindUnmatched
    \/ Ratios
    \/ Display

Spec == Init /\ [][Next]_vars

\* =========================================================================
\* buildFootprintPeakTable (lines 56 - 105) and buildPeakTable (107 - 152)
\* =========================================================================
\* np.nan, and a number, as the value of a flux cell
NaN == [isNaN |-> TRUE, val |-> 0]
Float(v) == [isNaN |-> FALSE, val |-> v]

\* A footprint is the list of its peaks, a peak its getIx() and getIy().
FootprintOrigins == {<<0, 0>>, <<5, 5>>}
SourceIds == {1, 2}

FootprintAt(o, np) == [peaks |-> [k \in 1..np |-> [x |-> o[1] + k, y |-> o[2]]]]

Footprints == {FootprintAt(o, np) : o \in FootprintOrigins, np \in 0..MaxPeaks}

\* an entry of expDb.mergedDet: getId() and getFootprint()
Sources == [id : SourceIds, footprint : Footprints]

\* sid=None, or the source id
SidArgs == {[isNone |-> TRUE, val |-> 0]} \cup {[isNone |-> FALSE, val |-> v] : v \in SourceIds}

InitBuild ==
    /\ call \in {"buildPeakTable", "buildFootprintPeakTable"}
    /\ \E nf \in 0..MaxFilters : filters = [f \in 1..nf |-> f]
    /\ \/ /\ call = "buildPeakTable"
          /\ \E det \in SeqsUpTo(Sources, MaxParents) : expDb = [mergedDet |-> det]
          /\ footprint = NotUsed
          /\ sid = NotUsed
          /\ src = 1
       \/ /\ call = "buildFootprintPeakTable"
          /\ footprint \in Footprints
          /\ sid \in SidArgs
          /\ expDb = NotUsed
          /\ src = NotUsed
    /\ rows = <<>>
    /\ peakTable = <<>>
    /\ pc = "rows"
    /\ err = "none"
    /\ simTable = NotUsed
    /\ maxSeparation = NotUsed
    /\ avgNoise = NotUsed
    /\ display = NotUsed
    /\ d2 = NotUsed
    /\ idx = NotUsed
    /\ matched = NotUsed
    /\ matchTable = NotUsed
    /\ unmatched = NotUsed
    /\ unmatchedTable = NotUsed
    /\ tbl = NotUsed
    /\ inPlace = NotUsed
    /\ seds = NotUsed
    /\ normalization = NotUsed
    /\ n = NotUsed
    /\ fluxThresh = NotUsed

\* the variables the two builders do not have
notOfBuild == <<simTable, maxSeparation, avgNoise, display, d2, idx, matched, matchTable,
                unmatched, unmatchedTable, tbl, inPlace, seds, normalization, n, fluxThresh>>

\* variant: the threshold written len(...) > 2
BlendedAboveTwo(fp) == Len(fp.peaks) > 2

\* lines 76 - 79 and 134 - 137
Blended(fp) == Len(fp.peaks) >= 2

\* variant: the peak index counted from 1
RowsOfFromOne(parent, fp, blended) ==
    [pk \in 1..Len(fp.peaks) |->
        [parent |-> parent, peakIdx |-> pk, peak |-> fp.peaks[pk],
         x |-> fp.peaks[pk].x, y |-> fp.peaks[pk].y,
         blended |-> blended, parentFootprint |-> fp]]

\* what the loop over enumerate(footprint.getPeaks()) appends to the lists
\* (lines 90 - 97 and 138 - 145); pk of enumerate is the position less one
RowsOf(parent, fp, blended) ==
    [pk \in 1..Len(fp.peaks) |->
        [parent |-> parent, peakIdx |-> pk - 1, peak |-> fp.peaks[pk],
         x |-> fp.peaks[pk].x, y |-> fp.peaks[pk].y,
         blended |-> blended, parentFootprint |-> fp]]

\* lines 131 - 145: one pass of the loop over expDb.mergedDet
AppendSource ==
    /\ call = "buildPeakTable"
    /\ pc = "rows"
    /\ src <= Len(expDb.mergedDet)
    /\ LET source == expDb.mergedDet[src]
       IN  rows' = rows \o RowsOf(source.id, source.footprint, Blended(source.footprint))
    /\ src' = src + 1
    /\ UNCHANGED <<call, expDb, footprint, sid, filters, peakTable, pc, err>>
    /\ UNCHANGED notOfBuild

\* lines 75 - 97
AppendFootprint ==
    /\ call = "buildFootprintPeakTable"
    /\ pc = "rows"
    /\ rows' = RowsOf(IF sid.isNone THEN 0 ELSE sid.val, footprint, Blended(footprint))
    /\ pc' = "table"
    /\ UNCHANGED <<call, expDb, footprint, sid, src, filters, peakTable, err>>
    /\ UNCHANGED notOfBuild

\* a row of the table with its empty flux columns
WithFluxColumns(r, fs) ==
    [parent |-> r.parent, peakIdx |-> r.peakIdx, x |-> r.x, y |-> r.y,
     blended |-> r.blended, peak |-> r.peak, parentFootprint |-> r.parentFootprint,
     flux |-> [f \in Range(fs) |-> NaN]]

\* lines 98 - 105 and 146 - 152.  Setting a column of a table without rows to
\* the scalar np.nan is refused by the astropy releases that build the column
\* from the scalar alone, and gives an empty column in those that broadcast
\* it to the length of the table.
MakeTable ==
    /\ \/ call = "buildPeakTable" /\ pc = "rows" /\ src > Len(expDb.mergedDet)
       \/ call = "buildFootprintPeakTable" /\ pc = "table"
    /\ \/ /\ peakTable' = [i \in 1..Len(rows) |-> WithFluxColumns(rows[i], filters)]
          /\ pc' = "done"
          /\ UNCHANGED err
       \/ /\ rows = <<>>
          /\ filters # <<>>
          /\ Raise("TypeError")
          /\ UNCHANGED peakTable
    /\ UNCHANGED <<call, expDb, footprint, sid, rows, src, filters>>
    /\ UNCHANGED notOfBuild

NextBuild ==
    \/ AppendSource
    \/ AppendFootprint
    \/ MakeTable

SpecBuild == InitBuild /\ [][NextBuild]_vars

\* =========================================================================
\* calculateSedsFromFlux (lines 464 - 494)
\* =========================================================================
\* The values of a flux cell of tbl: not filled in, zero, a positive flux.
FluxValues == {NaN, Float(0), Float(1)}

\* the sed column tbl may already have
OldSed == <<Float(7)>>

\* a row of tbl: a column the function has no business with, the flux
\* columns and, when hasSed, the sed column
SedRow(i, flux, hasSed) ==
    IF hasSed
    THEN [x |-> i, flux |-> flux, sed |-> OldSed]
    ELSE [x |-> i, flux |-> flux]

InitSed ==
    /\ call = "calculateSedsFromFlux"
    /\ \E nf \in 1..MaxFilters :
          /\ filters = [f \in 1..nf |-> f]
          /\ \E fluxes \in SeqsUpTo([1..nf -> FluxValues], MaxPeaks), hasSed \in BOOLEAN :
                tbl = [i \in 1..Len(fluxes) |-> SedRow(i, fluxes[i], hasSed)]
    /\ inPlace \in BOOLEAN
    /\ seds = <<>>
    /\ normalization = <<>>
    /\ pc = "seds"
    /\ err = "none"
    /\ peakTable = NotUsed
    /\ simTable = NotUsed
    /\ maxSeparation = NotUsed
    /\ avgNoise = NotUsed
    /\ display = NotUsed
    /\ d2 = NotUsed
    /\ idx = NotUsed
    /\ matched = NotUsed
    /\ matchTable = NotUsed
    /\ unmatched = NotUsed
    /\ unmatchedTable = NotUsed
    /\ expDb = NotUsed
    /\ footprint = NotUsed
    /\ sid = NotUsed
    /\ rows = NotUsed
    /\ src = NotUsed
    /\ n = NotUsed
    /\ fluxThresh = NotUsed

\* the variables calculateSedsFromFlux does not have
notOfSed == <<peakTable, simTable, maxSeparation, avgNoise, display, d2, idx, matched,
              matchTable, unmatched, unmatchedTable, expDb, footprint, sid, rows, src,
              n, fluxThresh>>

\* a + b of two floats
Plus(a, b) == IF a.isNaN \/ b.isNaN THEN NaN ELSE Float(a.val + b.val)

\* a / b of two floats, kept as the pair of its terms; 0/0 is nan, x/0 is
\* infinite, and numpy raises for neither
Quotient(a, b) ==
    IF a.isNaN \/ b.isNaN \/ (a.val = 0 /\ b.val = 0)
    THEN NaN
    ELSE [isNaN |-> FALSE, num |-> a.val, den |-> b.val]

RECURSIVE SumOf(_, _)
\* np.sum of the first k entries of the vector v
SumOf(v, k) == IF k = 0 THEN Float(0) ELSE Plus(SumOf(v, k - 1), v[k])

\* line 489: row i of the flux columns, in the order of filters
FluxVector(t, fs, i) == [f \in 1..Len(fs) |-> t[i].flux[fs[f]]]

\* variant: np.sum(seds) without the axis, the total of the whole table
TableSum(t, fs, i) ==
    SumOf([k \in 1..Len(t) |-> SumOf(FluxVector(t, fs, k), Len(fs))], Len(t))

\* line 490: np.sum(seds, axis=1)[i]
RowSum(t, fs, i) == SumOf(FluxVector(t, fs, i), Len(fs))

\* lines 487 - 491
ComputeSeds ==
    /\ call = "calculateSedsFromFlux"
    /\ pc = "seds"
    /\ normalization' = [i \in 1..Len(tbl) |-> RowSum(tbl, filters, i)]
    /\ seds' = [i \in 1..Len(tbl) |->
                  [f \in 1..Len(filters) |->
                      Quotient(FluxVector(tbl, filters, i)[f], normalization'[i])]]
    /\ pc' = "store"
    /\ UNCHANGED <<call, filters, tbl, inPlace, err>>
    /\ UNCHANGED notOfSed

\* variant: the sed column set whatever inPlace is
SetSedAlways(t, s, inPl) ==
    [i \in 1..Len(t) |-> [x |-> t[i].x, flux |-> t[i].flux, sed |-> s[i]]]

\* lines 492 - 493: tbl after  if inPlace: tbl["sed"] = seds
SetSed(t, s, inPl) ==
    IF inPl
    THEN [i \in 1..Len(t) |-> [x |-> t[i].x, flux |-> t[i].flux, sed |-> s[i]]]
    ELSE t

\* lines 492 - 494
StoreSeds ==
    /\ call = "calculateSedsFromFlux"
    /\ pc = "store"
    /\ tbl' = SetSed(tbl, seds, inPlace)
    /\ pc' = "done"
    /\ UNCHANGED <<call, filters, inPlace, seds, normalization, err>>
    /\ UNCHANGED notOfSed

NextSed ==
    \/ ComputeSeds
    \/ StoreSeds

SpecSed == InitSed /\ [][NextSed]_vars

\* =========================================================================
\* calculateIsolatedFlux (lines 397 - 432)
\* =========================================================================
\* fluxThresh=2 of the signature
DefaultFluxThresh == 2

\* the numbers of peaks of the footprints the peak table was built from
PeakCounts == {1, 2}

RECURSIVE BuiltRows(_, _)
\* the rows buildPeakTable makes of the first k footprints, the footprint of
\* parent j having counts[j] peaks
BuiltRows(counts, k) ==
    IF k = 0
    THEN <<>>
    ELSE LET fp == FootprintAt(<<5 * k, 5 * k>>, counts[k])
         IN  BuiltRows(counts, k - 1) \o RowsOf(k, fp, Blended(fp))

\* row i of the table matchToRef returned for the peak table: the truth
\* source of a matched peak, zeros for an unmatched one
MatchedRow(i, isMatched, fs) ==
    [matched |-> isMatched,
     flux |-> [f \in Range(fs) |-> IF isMatched THEN SimFlux(i, f) ELSE 0],
     intensity |-> [f \in Range(fs) |-> IF isMatched THEN SimIntensity(i, f) ELSE <<0, 0>>]]

\* np.ma.sum of the calexp of filter f over the footprint of row i (lines
\* 427 - 429): the simulated flux, or far below it in a dark exposure
FootprintSum(db, i, f) == IF db.calexps[f] = "dark" THEN i ELSE SimFlux(i, f)

InitIso ==
    /\ call = "calculateIsolatedFlux"
    /\ \E nf \in 0..MaxFilters :
          /\ filters = [f \in 1..nf |-> f]
          /\ avgNoise \in NoiseArgs(nf)
          /\ \E kind \in {"dark", "simulated"} : expDb = [calexps |-> [f \in 1..nf |-> kind]]
          /\ \E counts \in SeqsUpTo(PeakCounts, MaxParents) :
                LET built == BuiltRows(counts, Len(counts))
                IN  /\ peakTable = [i \in 1..Len(built) |-> WithFluxColumns(built[i], filters)]
                    /\ \E m \in [1..Len(built) -> BOOLEAN] :
                          simTable = [i \in 1..Len(built) |-> MatchedRow(i, m[i], filters)]
    /\ fluxThresh = DefaultFluxThresh
    /\ n = 1
    /\ pc = "loop"
    /\ err = "none"
    /\ maxSeparation = NotUsed
    /\ display = NotUsed
    /\ d2 = NotUsed
    /\ idx = NotUsed
    /\ matched = NotUsed
    /\ matchTable = NotUsed
    /\ unmatched = NotUsed
    /\ unmatchedTable = NotUsed
    /\ footprint = NotUsed
    /\ sid = NotUsed
    /\ rows = NotUsed
    /\ src = NotUsed
    /\ tbl = NotUsed
    /\ inPlace = NotUsed
    /\ seds = NotUsed
    /\ normalization = NotUsed

\* the variables calculateIsolatedFlux does not have
notOfIso == <<maxSeparation, display, d2, idx, matched, matchTable, unmatched,
              unmatchedTable, footprint, sid, rows, src, tbl, inPlace, seds, normalization>>

\* what calculateIsolatedFlux only reads
isoArgs == <<call, filters, expDb, simTable, avgNoise, fluxThresh>>

\* variant: a row skipped only when it is both blended and unmatched
SkippedWhenBoth(peak, match) == peak.blended /\ ~match.matched

\* line 423: peak["blended"] or ~simTable[n]["matched"]
Skipped(peak, match) == peak.blended \/ ~match.matched

Abs(v) == IF v < 0 THEN 0 - v ELSE v

\* line 434, left of the and: np.abs(flux-simFlux)/simFlux > .5, the
\* simulated flux of a matched row being positive
Discrepant(flux, simFlux) == 2 * Abs(flux - simFlux) > simFlux

\* line 434 at position k of filters raises: the left of the and holds and
\* avgNoise[fidx], on its right, cannot be read.  What the right of the and
\* evaluates to decides only whether the source is displayed.
NoiseUnreadable(i, k) ==
    /\ Discrepant(FootprintSum(expDb, i, filters[k]), simTable[i].flux[filters[k]])
    /\ avgNoise.isNone \/ k > Len(avgNoise.list)

\* the positions of filters at which the loop of row i stops on line 434
RaisingAt(i) == {k \in 1..Len(filters) : NoiseUnreadable(i, k)}

\* the least position of a nonempty set of positions
First(S) == CHOOSE k \in S : \A j \in S : k <= j

\* lines 426 - 430: row r with the flux of the first upTo filters measured
WithFluxes(r, i, upTo) ==
    [r EXCEPT !.flux = [f \in Range(filters) |->
                           IF \E k \in 1..upTo : filters[k] = f
                           THEN Float(FootprintSum(expDb, i, f))
                           ELSE r.flux[f]]]

\* lines 422 - 424: a pass of the loop that takes the continue.  The model's
\* n is the position of the row, one more than n of enumerate.
SkipRow ==
    /\ call = "calculateIsolatedFlux"
    /\ pc = "loop"
    /\ n <= Len(peakTable)
    /\ Skipped(peakTable[n], simTable[n])
    /\ n' = n + 1
    /\ UNCHANGED <<peakTable, pc, err>>
    /\ UNCHANGED isoArgs
    /\ UNCHANGED notOfIso

\* lines 422 - 437: a pass of the loop that measures the row.  displayImage
\* and the logger change no table.
MeasureRow ==
    /\ call = "calculateIsolatedFlux"
    /\ pc = "loop"
    /\ n <= Len(peakTable)
    /\ ~Skipped(peakTable[n], simTable[n])
    /\ IF RaisingAt(n) = {}
       THEN /\ peakTable' = [peakTable EXCEPT ![n] = WithFluxes(@, n, Len(filters))]
            /\ n' = n + 1
            /\ UNCHANGED <<pc, err>>
       ELSE /\ peakTable' = [peakTable EXCEPT ![n] = WithFluxes(@, n, First(RaisingAt(n)))]
            /\ Raise(IF avgNoise.isNone THEN "TypeError" ELSE "IndexError")
            /\ UNCHANGED n
    /\ UNCHANGED isoArgs
    /\ UNCHANGED notOfIso

\* the loop of line 422 is over: the function returns None
ReturnIso ==
    /\ call = "calculateIsolatedFlux"
    /\ pc = "loop"
    /\ n > Len(peakTable)
    /\ pc' = "done"
    /\ UNCHANGED <<peakTable, n, err>>
    /\ UNCHANGED isoArgs
    /\ UNCHANGED notOfIso

NextIso ==
    \/ SkipRow
    \/ MeasureRow
    \/ ReturnIso

SpecIso == InitIso /\ [][NextIso]_vars

\* ------------------------------------------------------------ properties
Terminal == pc \in {"done", "raised"}

\* matchTable has the form it is returned in (line 218 is passed)
Zeroed == pc \in {"undetected", "ratios", "display", "done"}

\* unmatched and unmatchedTable are bound (line 227 is passed)
UnmatchedBound == pc \in {"ratios", "display", "done"}

\* a call whose filter list, noise list and display flag raise nothing
WellConfigured ==
    /\ Len(filters) > 0
    /\ ~avgNoise.isNone
    /\ Len(avgNoise.list) = Len(filters)
    /\ ~display

\* square of the distance from peak i to the truth sources, from the arguments
MinDist2(i) ==
    CHOOSE d \in {Dist2(peakTable[i], simTable[j]) : j \in 1..Len(simTable)} :
        \A k \in 1..Len(simTable) : d <= Dist2(peakTable[i], simTable[k])

WithinThreshold(i) == MinDist2(i) < maxSeparation * maxSeparation

\* the truth indices some peak has as nearest neighbour within threshold
DetectedSims == {j \in 1..Len(simTable) :
                    \E i \in 1..Len(idx) : idx[i] = j /\ WithinThreshold(i)}

SameTruthData(r, s) ==
    /\ r.x = s.x
    /\ r.y = s.y
    /\ r.flux = s.flux
    /\ r.intensity = s.intensity
    /\ r.sed = s.sed
    /\ r.size = s.size
    /\ r.redshift = s.redshift

TypeOK ==
    /\ pc \in {"query", "build", "zero", "undetected", "ratios", "display", "done", "raised"}
    /\ (pc = "raised") <=> (err # "none")
    /\ pc # "query" /\ err # "EmptyInput" =>
          /\ Len(idx) = Len(peakTable)
          /\ Len(d2) = Len(peakTable)
          /\ \A i \in 1..Len(idx) : idx[i] \in 1..Len(simTable)

\* C1: for every peak table with N >= 0 peaks and every truth table with
\* M >= 0 sources, the call returns a match table of exactly N rows, and
\* row i (and entry i of idx) describes peak i: its nearest truth source and
\* the distance to it.
C1_OneMatchRowPerPeak ==
    Terminal /\ WellConfigured =>
        /\ pc = "done"
        /\ Len(matchTable) = Len(peakTable)
        /\ Len(idx) = Len(peakTable)
        /\ \A i \in 1..Len(peakTable) :
              /\ idx[i] \in Nearest(peakTable[i], simTable)
              /\ matchTable[i].distance = MinDist2(i)

\* C2: a row has matched = true iff the distance from its peak to the nearest
\* truth source is strictly less than maxSeparation; at distance equal to
\* maxSeparation the peak is unmatched.
C2_MatchedIffStrictlyCloser ==
    Zeroed =>
        /\ Len(matchTable) = Len(peakTable)
        /\ \A i \in 1..Len(peakTable) : matchTable[i].matched <=> WithinThreshold(i)

C2_Witness ==
    /\ pc = "done"
    /\ \E i, k \in 1..Len(peakTable) :
          /\ MinDist2(i) = maxSeparation * maxSeparation
          /\ ~matchTable[i].matched
          /\ matchTable[k].matched

\* C3: a row has duplicate = true iff its peak is matched and another matched
\* peak has the same nearest truth index; an unmatched peak is never
\* duplicate, whatever nearest index it shares.
C3_DuplicateIffSharedAmongMatched ==
    Zeroed =>
        \A i \in 1..Len(matchTable) :
            matchTable[i].duplicate <=>
                /\ matchTable[i].matched
                /\ \E k \in 1..Len(matchTable) :
                      k # i /\ matchTable[k].matched /\ idx[k] = idx[i]

C3_Witness ==
    /\ pc = "done"
    /\ \E i, k \in 1..Len(matchTable) :
          /\ i # k
          /\ idx[i] = idx[k]
          /\ matchTable[i].duplicate
          /\ matchTable[k].duplicate

\* C4: in every row with matched = false the flux of every filter, the SED,
\* the size and the redshift are zero, and x and y are those of the row's
\* peak.
C4_UnmatchedRowsZeroedAtPeak ==
    Zeroed =>
        \A i \in 1..Len(matchTable) :
            ~matchTable[i].matched =>
                /\ \A f \in 1..Len(filters) : matchTable[i].flux[filters[f]] = 0
                /\ \A f \in DOMAIN matchTable[i].sed : matchTable[i].sed[f] = 0
                /\ matchTable[i].size = 0
                /\ matchTable[i].redshift = 0
                /\ matchTable[i].x = peakTable[i].x
                /\ matchTable[i].y = peakTable[i].y

C4_Witness ==
    /\ pc = "done"
    /\ \E i \in 1..Len(matchTable) :
          /\ ~matchTable[i].matched
          /\ simTable[idx[i]].x # peakTable[i].x
          /\ simTable[idx[i]].y # peakTable[i].y
          /\ simTable[idx[i]].flux[filters[1]] # 0

\* C5: every row with matched = true carries the attributes of the truth
\* source at its nearest-neighbour index unchanged: coordinates, per-filter
\* flux, SED, size, redshift and intensity image.
C5_MatchedRowsCarryTruth ==
    Zeroed =>
        \A i \in 1..Len(matchTable) :
            matchTable[i].matched => SameTruthData(matchTable[i], simTable[idx[i]])

\* C6: the unmatched table has M - D rows, D the number of distinct truth
\* indices that are the nearest neighbour of a peak within threshold, and
\* holds every truth source no peak matched exactly once and no other.
C6_UnmatchedAreTheUndetected ==
    UnmatchedBound =>
        /\ Len(unmatchedTable) = Len(simTable) - Cardinality(DetectedSims)
        /\ Len(unmatched) = Len(unmatchedTable)
        /\ Injective(unmatched)
        /\ Range(unmatched) = (1..Len(simTable)) \ DetectedSims
        /\ \A k \in 1..Len(unmatchedTable) :
              SameTruthData(unmatchedTable[k], simTable[unmatched[k]])

C6_Witness ==
    /\ pc = "done"
    /\ Len(unmatchedTable) >= 1
    /\ Cardinality(DetectedSims) >= 1
    /\ \E i \in 1..Len(idx) : ~matchTable[i].matched

\* C7: with an empty truth table or an empty peak table the call returns
\* empty tables (a match table of as many rows as peaks, an unmatched table
\* consistent with the truth table) instead of failing.
C7_EmptyTablesReturnEmpty ==
    Terminal /\ WellConfigured /\ (Len(peakTable) = 0 \/ Len(simTable) = 0) =>
        /\ pc = "done"
        /\ Len(matchTable) = Len(peakTable)
        /\ Len(unmatchedTable) <= Len(simTable)

\* C8: a call with a noise-estimate list shorter than the filter list always
\* ends in an error, for every peak table and truth table.
C8_ShortNoiseListRaises ==
    Terminal /\ ~avgNoise.isNone /\ Len(avgNoise.list) < Len(filters) => pc = "raised"

\* C9: avgNoise is optional: without it (None) the call completes and
\* returns its three results, also when a truth source is undetected.
C9_NoiseIsOptional ==
    /\ Terminal
    /\ avgNoise.isNone
    /\ Len(filters) > 0
    /\ ~display
    /\ Len(peakTable) > 0
    /\ Len(simTable) > 0
    => pc = "done"

\* C10: when every truth source is matched by some peak within threshold the
\* call completes and returns an unmatched table of zero rows.
C10_AllDetectedReturnsNoUnmatched ==
    /\ Terminal
    /\ Len(filters) > 0
    /\ ~avgNoise.isNone
    /\ Len(avgNoise.list) = Len(filters)
    /\ Len(peakTable) > 0
    /\ Len(simTable) > 0
    /\ DetectedSims = 1..Len(simTable)
    => pc = "done" /\ Len(unmatchedTable) = 0

\* the peak/noise columns are set (line 236 is passed)
RatiosSet == pc \in {"display", "done"}

\* C14: in the unmatched table the peak/noise value of a row in a filter is
\* the maximum pixel of that row's own intensity image in that filter over
\* the noise estimate at the filter's position in the filter list, in
\* whatever order the undetected indices were enumerated.
C14_RatiosAlignedWithRows ==
    RatiosSet =>
        /\ Len(unmatchedTable) = Len(unmatched)
        /\ \A k \in 1..Len(unmatchedTable) :
              /\ DOMAIN unmatchedTable[k].ratio = 1..Len(filters)
              /\ SameTruthData(unmatchedTable[k], simTable[unmatched[k]])
              /\ \A f \in 1..Len(filters) :
                    unmatchedTable[k].ratio[f] =
                        Ratio(MaxOf(unmatchedTable[k].intensity[filters[f]]), avgNoise.list[f])

C14_Witness ==
    /\ pc = "done"
    /\ Len(filters) >= 2
    /\ Len(unmatchedTable) >= 2
    /\ unmatched[1] > unmatched[2]
    /\ unmatchedTable[1].ratio[2] # unmatchedTable[2].ratio[2]
    /\ unmatchedTable[1].ratio[1] # unmatchedTable[1].ratio[2]

\* C15: the call leaves the peak table and the truth table it was given
\* unchanged: zeroing, the coordinate overwrite and the added columns reach
\* only the match table and the unmatched table.
C15_InputTablesUnchanged ==
    [][peakTable' = peakTable /\ simTable' = simTable]_vars

C15_Witness ==
    /\ pc = "done"
    /\ Len(unmatchedTable) >= 1
    /\ \E i \in 1..Len(matchTable) :
          /\ ~matchTable[i].matched
          /\ matchTable[i].flux # simTable[idx[i]].flux
          /\ matchTable[i].x # simTable[idx[i]].x

\* ------------------------------------------- properties of the builders
\* the footprints given, in the order given, and their ids
GivenFootprints ==
    IF call = "buildPeakTable"
    THEN [k \in 1..Len(expDb.mergedDet) |-> expDb.mergedDet[k].footprint]
    ELSE <<footprint>>

GivenIds ==
    IF call = "buildPeakTable"
    THEN [k \in 1..Len(expDb.mergedDet) |-> expDb.mergedDet[k].id]
    ELSE <<IF sid.isNone THEN 0 ELSE sid.val>>

RECURSIVE PeaksBefore(_)
\* the number of peaks of the parents before parent k
PeaksBefore(k) ==
    IF k <= 1 THEN 0 ELSE PeaksBefore(k - 1) + Len(GivenFootprints[k - 1].peaks)

\* the table row of peak pk (from 1) of parent k
RowOf(k, pk) == peakTable[PeaksBefore(k) + pk]

Built == call \in {"buildPeakTable", "buildFootprintPeakTable"} /\ pc = "done"

\* C11: in the tables of buildPeakTable and buildFootprintPeakTable a peak
\* has blended = true iff its parent footprint has at least 2 peaks; the
\* peaks of one parent carry the same value, false for a parent of one peak.
C11_BlendedIffTwoOrMorePeaks ==
    Built =>
        /\ Len(peakTable) = PeaksBefore(Len(GivenFootprints) + 1)
        /\ \A k \in 1..Len(GivenFootprints) :
              \A pk \in 1..Len(GivenFootprints[k].peaks) :
                  RowOf(k, pk).blended <=> Len(GivenFootprints[k].peaks) >= 2

C11_Witness ==
    /\ Built
    /\ \E k, m \in 1..Len(GivenFootprints) :
          /\ Len(GivenFootprints[k].peaks) = 1
          /\ ~RowOf(k, 1).blended
          /\ Len(GivenFootprints[m].peaks) = 2
          /\ RowOf(m, 1).blended
          /\ RowOf(m, 2).blended

\* C12: buildPeakTable gives one row per peak of every parent, in parent
\* order then peak order; a row carries its parent's id and the peak's
\* 0-based position among the parent's peaks, so (parent, peakIdx) is unique
\* when the ids are distinct; every requested flux column is NaN in every row.
C12_OneRowPerPeakInOrder ==
    Built /\ call = "buildPeakTable" =>
        /\ Len(peakTable) = PeaksBefore(Len(GivenFootprints) + 1)
        /\ \A k \in 1..Len(GivenFootprints) :
              \A pk \in 1..Len(GivenFootprints[k].peaks) :
                  /\ RowOf(k, pk).parent = GivenIds[k]
                  /\ RowOf(k, pk).peakIdx = pk - 1
                  /\ RowOf(k, pk).x = GivenFootprints[k].peaks[pk].x
                  /\ RowOf(k, pk).y = GivenFootprints[k].peaks[pk].y
        /\ \A i \in 1..Len(peakTable) :
              /\ DOMAIN peakTable[i].flux = Range(filters)
              /\ \A f \in Range(filters) : peakTable[i].flux[f].isNaN
        /\ Injective(GivenIds) =>
              \A i, k \in 1..Len(peakTable) :
                  /\ peakTable[i].parent = peakTable[k].parent
                  /\ peakTable[i].peakIdx = peakTable[k].peakIdx
                  => i = k

C12_Witness ==
    /\ Built
    /\ call = "buildPeakTable"
    /\ Len(GivenFootprints) = 2
    /\ Injective(GivenIds)
    /\ Len(GivenFootprints[1].peaks) = 2
    /\ Len(GivenFootprints[2].peaks) = 1
    /\ Len(peakTable) = 3
    /\ Len(filters) = 2

\* ------------------------------- properties of calculateSedsFromFlux
RECURSIVE Total(_, _)
\* the sum of the first k numbers of the flux row r
Total(r, k) == IF k = 0 THEN 0 ELSE Total(r, k - 1) + r.flux[filters[k]].val

\* every flux of the row is a number
Numeric(r) == \A f \in 1..Len(filters) : ~r.flux[filters[f]].isNaN

RECURSIVE NumeratorSum(_, _)
NumeratorSum(v, k) == IF k = 0 THEN 0 ELSE NumeratorSum(v, k - 1) + v[k].num

SedsComputed == call = "calculateSedsFromFlux" /\ pc \in {"store", "done"}

\* C13: for every row whose total flux over the filters is a nonzero number
\* the SED returned is the flux vector divided by that total, so that its
\* entries sum to 1, and the normalization is the total; a row of zero total
\* raises nothing and changes the result of no other row.
C13_SedIsFluxOverRowTotal ==
    SedsComputed =>
        /\ err = "none"
        /\ Len(seds) = Len(tbl)
        /\ Len(normalization) = Len(tbl)
        /\ \A i \in 1..Len(tbl) :
              Numeric(tbl[i]) /\ Total(tbl[i], Len(filters)) # 0 =>
                  /\ normalization[i] = Float(Total(tbl[i], Len(filters)))
                  /\ \A f \in 1..Len(filters) :
                        seds[i][f] = [isNaN |-> FALSE,
                                      num |-> tbl[i].flux[filters[f]].val,
                                      den |-> Total(tbl[i], Len(filters))]
                  /\ NumeratorSum(seds[i], Len(filters)) = seds[i][1].den

C13_Witness ==
    /\ call = "calculateSedsFromFlux"
    /\ pc = "done"
    /\ Len(filters) = 2
    /\ \E i, k \in 1..Len(tbl) :
          /\ Numeric(tbl[i])
          /\ Total(tbl[i], 2) = 0
          /\ Numeric(tbl[k])
          /\ Total(tbl[k], 2) = 2
          /\ seds[k][1] = [isNaN |-> FALSE, num |-> 1, den |-> 2]

\* the columns of row r other than sed
NotSed(r) == [x |-> r.x, flux |-> r.flux]

\* C17: with inPlace = false the call leaves every column of tbl unchanged,
\* an existing sed column included; with inPlace = true the only change is
\* that the sed column is set to the SEDs returned, the flux columns and the
\* other columns staying as they were.
C17_OnlySedColumnSetInPlace ==
    /\ [][/\ ~inPlace => tbl' = tbl
          /\ Len(tbl') = Len(tbl)
          /\ \A i \in 1..Len(tbl) : NotSed(tbl'[i]) = NotSed(tbl[i])]_vars
    /\ [](call = "calculateSedsFromFlux" /\ pc = "done" /\ inPlace =>
             \A i \in 1..Len(tbl) : tbl[i].sed = seds[i])

C17_Witness ==
    /\ call = "calculateSedsFromFlux"
    /\ pc = "done"
    /\ inPlace
    /\ Len(tbl) = 2
    /\ tbl[1].sed # OldSed
    /\ tbl[1].sed # tbl[2].sed

\* a call without inPlace on a table that has a sed column
C17_WitnessNotInPlace ==
    /\ call = "calculateSedsFromFlux"
    /\ pc = "done"
    /\ ~inPlace
    /\ Len(tbl) = 2
    /\ "sed" \in DOMAIN tbl[1]
    /\ tbl[1].sed = OldSed
    /\ seds[1] # OldSed

\* ------------------------------- properties of calculateIsolatedFlux
\* row i is of an isolated peak that matchToRef matched
IsolatedAndMatched(i) == ~peakTable[i].blended /\ simTable[i].matched

\* C16: calculateIsolatedFlux writes a flux only into the rows of the peak
\* table whose peak is not blended and whose match row is matched; when it
\* returns, every such row holds the measured flux of every filter and every
\* blended or unmatched row is as the builder left it, all nan.
C16_FluxOnlyForIsolatedMatched ==
    /\ [][\A i \in 1..Len(peakTable) :
             peakTable'[i] # peakTable[i] =>
                 /\ IsolatedAndMatched(i)
                 /\ [peakTable'[i] EXCEPT !.flux = peakTable[i].flux] = peakTable[i]]_vars
    /\ [](call = "calculateIsolatedFlux" /\ pc = "done" =>
             \A i \in 1..Len(peakTable) : \A f \in Range(filters) :
                 IF IsolatedAndMatched(i)
                 THEN peakTable[i].flux[f] = Float(FootprintSum(expDb, i, f))
                 ELSE peakTable[i].flux[f] = NaN)

C16_Witness ==
    /\ call = "calculateIsolatedFlux"
    /\ pc = "done"
    /\ Len(filters) = 2
    /\ \E i, j, k \in 1..Len(peakTable) :
          /\ IsolatedAndMatched(i)
          /\ peakTable[i].flux[1] = Float(SimFlux(i, 1))
          /\ peakTable[i].flux[2] = Float(SimFlux(i, 2))
          /\ peakTable[j].blended
          /\ simTable[j].matched
          /\ peakTable[j].flux[1] = NaN
          /\ peakTable[k].blended
          /\ ~simTable[k].matched
          /\ peakTable[k].flux[2] = NaN

====
